---- MODULE Spec2Model ----
(***************************************************************************)
(* Model of the contact intake function of the portfolio site              *)
(* (server/simple-lambda.js): one Lambda handler routing OPTIONS,          *)
(* GET /health and POST /api/contact, writing one item per submission to a *)
(* DynamoDB table whose hash key is the numeric attribute id.              *)
(***************************************************************************)
EXTENDS Integers, Sequences, FiniteSets, TLC

(***************************************************************************)
(* Bounds of the model.                                                    *)
(***************************************************************************)
\* First clock value, in epoch milliseconds: 1970-01-01T23:59:59.999Z, so
\* that one tick of the clock crosses a day boundary.
ClockStart == 86399999
\* Number of milliseconds the clock may advance during a run.
MaxTicks == 2
\* Number of milliseconds the clock may advance between the two clock
\* reads of one run of the handler.
MaxElapsed == 1

(***************************************************************************)
(* JavaScript values.  Primitive values share one record shape.            *)
(***************************************************************************)
Undefined == [t |-> "undefined", s |-> "", n |-> 0]
Str(s) == [t |-> "string", s |-> s, n |-> 0]
Num(n) == [t |-> "number", s |-> "", n |-> n]

(***************************************************************************)
(* JSON text is the concatenation of a sequence of lexemes: punctuation,   *)
(* null, strings without escapes, unsigned integers, and single spaces.    *)
(***************************************************************************)
LBrace == [k |-> "{", s |-> "", n |-> 0]
RBrace == [k |-> "}", s |-> "", n |-> 0]
Colon == [k |-> ":", s |-> "", n |-> 0]
Comma == [k |-> ",", s |-> "", n |-> 0]
TNull == [k |-> "null", s |-> "", n |-> 0]
TStr(s) == [k |-> "string", s |-> s, n |-> 0]
TNum(n) == [k |-> "number", s |-> "", n |-> n]
Space == [k |-> " ", s |-> "", n |-> 0]

\* The number of characters of a lexeme.
Width(lexeme) ==
  IF lexeme.k = "string" THEN Len(lexeme.s) + 2
  ELSE IF lexeme.k = "number" THEN Len(ToString(lexeme.n))
  ELSE IF lexeme.k = "null" THEN 4
  ELSE 1

RECURSIVE Offset(_, _)
\* The character offset at which lexeme i of the text starts.
Offset(text, i) == IF i = 1 THEN 0 ELSE Offset(text, i - 1) + Width(text[i - 1])

IsToken(lexeme) == lexeme.k # " "

\* The tokens of a text, white space skipped, each with its place in the
\* text.
Lex(text) ==
  LET placed == [i \in 1..Len(text) |->
                   [k |-> text[i].k, s |-> text[i].s, n |-> text[i].n, i |-> i]]
  IN SelectSeq(placed, IsToken)

\* The value a scalar token denotes.
TokValue(tok) ==
  IF tok.k = "string" THEN Str(tok.s)
  ELSE IF tok.k = "number" THEN Num(tok.n)
  ELSE [t |-> "null", s |-> "", n |-> 0]

ParseOk(kind, props) == [ok |-> TRUE, kind |-> kind, props |-> props, error |-> ""]
ParseFail(msg) == [ok |-> FALSE, kind |-> "error", props |-> <<>>, error |-> msg]
EndOfInput == ParseFail("Unexpected end of JSON input")
\* The SyntaxError of V8 at token p: it names a string or a number by its
\* kind and any other token by its first character, at its offset.
Unexpected(text, toks, p) ==
  IF p > Len(toks) THEN EndOfInput
  ELSE LET what == IF toks[p].k \in {"string", "number"} THEN toks[p].k
                   ELSE IF toks[p].k = "null" THEN "token n"
                   ELSE "token " \o toks[p].k
       IN ParseFail("Unexpected " \o what \o " in JSON at position "
                    \o ToString(Offset(text, toks[p].i)))

IsScalar(tok) == tok.k \in {"string", "number", "null"}

RECURSIVE ParseMembers(_, _, _, _)
\* Members of an object from token p on, p being where a key is expected;
\* a repeated key keeps its last value.
ParseMembers(text, toks, p, acc) ==
  IF p > Len(toks) THEN EndOfInput
  ELSE IF toks[p].k # "string" THEN Unexpected(text, toks, p)
  ELSE IF p + 1 > Len(toks) THEN EndOfInput
  ELSE IF toks[p + 1].k # ":" THEN Unexpected(text, toks, p + 1)
  ELSE IF p + 2 > Len(toks) THEN EndOfInput
  ELSE IF ~IsScalar(toks[p + 2]) THEN Unexpected(text, toks, p + 2)
  ELSE LET acc2 == (toks[p].s :> TokValue(toks[p + 2])) @@ acc IN
       IF p + 3 > Len(toks) THEN EndOfInput
       ELSE IF toks[p + 3].k = "}"
            THEN IF p + 3 = Len(toks) THEN ParseOk("object", acc2)
                 ELSE Unexpected(text, toks, p + 4)
       ELSE IF toks[p + 3].k = "," THEN ParseMembers(text, toks, p + 4, acc2)
       ELSE Unexpected(text, toks, p + 3)

\* The parse of a token sequence.
ParseTokens(text, toks) ==
  IF Len(toks) = 0 THEN EndOfInput
  ELSE IF IsScalar(toks[1])
       THEN IF Len(toks) = 1
            THEN ParseOk(IF toks[1].k = "null" THEN "null" ELSE "primitive", <<>>)
            ELSE Unexpected(text, toks, 2)
  ELSE IF toks[1].k = "{"
       THEN IF Len(toks) >= 2 /\ toks[2].k = "}"
            THEN IF Len(toks) = 2 THEN ParseOk("object", <<>>)
                 ELSE Unexpected(text, toks, 3)
            ELSE ParseMembers(text, toks, 2, <<>>)
  ELSE Unexpected(text, toks, 1)

\* JSON.parse on scalars and flat objects.
JSONParse(text) == ParseTokens(text, Lex(text))

RECURSIVE StringifyMembers(_, _)
StringifyMembers(pairs, first) ==
  IF pairs = <<>> THEN <<>>
  ELSE LET key == pairs[1][1]
           val == pairs[1][2]
       IN IF val.t = "undefined" THEN StringifyMembers(Tail(pairs), first)
          ELSE (IF first THEN <<>> ELSE <<Comma>>)
               \o <<TStr(key), Colon,
                    IF val.t = "number" THEN TNum(val.n)
                    ELSE IF val.t = "null" THEN TNull
                    ELSE TStr(val.s)>>
               \o StringifyMembers(Tail(pairs), FALSE)

\* JSON.stringify of an object given as its <<key, value>> pairs in insertion
\* order: a property whose value is undefined is left out.
JSONStringify(pairs) == <<LBrace>> \o StringifyMembers(pairs, TRUE) \o <<RBrace>>

(***************************************************************************)
(* Date: Date.now() is the clock in epoch milliseconds; toISOString()      *)
(* renders it as YYYY-MM-DDTHH:mm:ss.sssZ in UTC.                          *)
(***************************************************************************)
\* The UTC calendar fields of an epoch-millisecond time value.
DateFields(ms) ==
  LET days == ms \div 86400000
      rem == ms % 86400000
      z == days + 719468
      era == z \div 146097
      doe == z - era * 146097
      yoe == (doe - doe \div 1460 + doe \div 36524 - doe \div 146096) \div 365
      doy == doe - (365 * yoe + yoe \div 4 - yoe \div 100)
      mp == (5 * doy + 2) \div 153
      m == IF mp < 10 THEN mp + 3 ELSE mp - 9
  IN [year |-> yoe + era * 400 + (IF m <= 2 THEN 1 ELSE 0),
      month |-> m,
      day |-> doy - (153 * mp + 2) \div 5 + 1,
      hour |-> rem \div 3600000,
      minute |-> (rem % 3600000) \div 60000,
      second |-> (rem % 60000) \div 1000,
      milli |-> rem % 1000]

\* Date.parse of the fields: the time value they denote.
TimeValue(f) ==
  LET y == IF f.month <= 2 THEN f.year - 1 ELSE f.year
      era == y \div 400
      yoe == y - era * 400
      mp == IF f.month > 2 THEN f.month - 3 ELSE f.month + 9
      doy == (153 * mp + 2) \div 5 + f.day - 1
      doe == yoe * 365 + yoe \div 4 - yoe \div 100 + doy
      days == era * 146097 + doe - 719468
  IN days * 86400000 + f.hour * 3600000 + f.minute * 60000 + f.second * 1000 + f.milli

Pad2(n) == IF n < 10 THEN "0" \o ToString(n) ELSE ToString(n)
Pad3(n) == IF n < 10 THEN "00" \o ToString(n)
           ELSE IF n < 100 THEN "0" \o ToString(n) ELSE ToString(n)
Pad4(n) == IF n < 1000 THEN "0" \o Pad3(n) ELSE ToString(n)

ToISOString(ms) ==
  LET f == DateFields(ms)
  IN Pad4(f.year) \o "-" \o Pad2(f.month) \o "-" \o Pad2(f.day) \o "T"
     \o Pad2(f.hour) \o ":" \o Pad2(f.minute) \o ":" \o Pad2(f.second)
     \o "." \o Pad3(f.milli) \o "Z"

(***************************************************************************)
(* The handler, exports.handler of server/simple-lambda.js.                *)
(***************************************************************************)
\* The CORS headers set at the top of the handler.
headers ==
  ("Access-Control-Allow-Origin" :> "*")
  @@ ("Access-Control-Allow-Headers" :>
        "Content-Type,X-Amz-Date,Authorization,X-Api-Key,X-Amz-Security-Token")
  @@ ("Access-Control-Allow-Methods" :> "GET,POST,PUT,DELETE,OPTIONS")

\* { ...headers, 'Content-Type': 'application/json' }
JsonHeaders_ContentTypeOnly == ("Content-Type" :> "application/json")

JsonHeaders == ("Content-Type" :> "application/json") @@ headers

PreflightResponse_NoContent == [statusCode |-> 204, headers |-> headers, body |-> <<>>]

PreflightResponse == [statusCode |-> 200, headers |-> headers, body |-> <<>>]

HealthResponse(now) ==
  [statusCode |-> 200, headers |-> JsonHeaders,
   body |-> JSONStringify(<< <<"status", Str("ok")>>,
                             <<"timestamp", Str(ToISOString(now))>> >>)]

SuccessResponse_CreatedAtAsId(submission) ==
  [statusCode |-> 200, headers |-> JsonHeaders,
   body |-> JSONStringify(<< <<"message", Str("Contact form submitted successfully")>>,
                             <<"id", submission.createdAt>> >>)]

SuccessResponse(submission) ==
  [statusCode |-> 200, headers |-> JsonHeaders,
   body |-> JSONStringify(<< <<"message", Str("Contact form submitted successfully")>>,
                             <<"id", submission.id>> >>)]

NotFoundResponse ==
  [statusCode |-> 404, headers |-> JsonHeaders,
   body |-> JSONStringify(<< <<"message", Str("Not Found")>> >>)]

ErrorResponse_BadRequest(errorMessage) ==
  [statusCode |-> 400, headers |-> JsonHeaders,
   body |-> JSONStringify(<< <<"message", Str("Internal server error")>>,
                             <<"error", Str(errorMessage)>> >>)]

\* The catch block: errorMessage is error.message.
ErrorResponse(errorMessage) ==
  [statusCode |-> 500, headers |-> JsonHeaders,
   body |-> JSONStringify(<< <<"message", Str("Internal server error")>>,
                             <<"error", Str(errorMessage)>> >>)]

IsHealthRoute(path, method) == path = "/health" /\ method = "GET"

IsContactRoute_AnyMethod(path, method) == path = "/api/contact"

IsContactRoute(path, method) == path = "/api/contact" /\ method = "POST"

\* event.body || '{}': an absent body and the empty string are falsy.
BodyOrDefault(body) ==
  IF ~body.present \/ body.text = <<>> THEN <<LBrace, RBrace>> ELSE body.text

\* body.<key> on the parsed body; a key the object lacks, and any property
\* of a primitive, is undefined.
GetProp(parsed, key) ==
  IF key \in DOMAIN parsed.props THEN parsed.props[key] ELSE Undefined

\* Reading a property of null throws.
NullPropertyError == "Cannot read properties of null (reading 'name')"

Submission_ClientId(parsed, now, later) ==
  [id |-> IF "id" \in DOMAIN parsed.props THEN parsed.props["id"] ELSE Num(now),
   name |-> GetProp(parsed, "name"),
   email |-> GetProp(parsed, "email"),
   subject |-> GetProp(parsed, "subject"),
   message |-> GetProp(parsed, "message"),
   createdAt |-> IF "createdAt" \in DOMAIN parsed.props
                 THEN parsed.props["createdAt"] ELSE Str(ToISOString(later))]

\* The submission record built from the parsed body: Date.now() reads the
\* clock value now for id, and new Date() reads it again, as later, for
\* createdAt.
Submission(parsed, now, later) ==
  [id |-> Num(now),
   name |-> GetProp(parsed, "name"),
   email |-> GetProp(parsed, "email"),
   subject |-> GetProp(parsed, "subject"),
   message |-> GetProp(parsed, "message"),
   createdAt |-> Str(ToISOString(later))]

NoSubmission ==
  [id |-> Undefined, name |-> Undefined, email |-> Undefined,
   subject |-> Undefined, message |-> Undefined, createdAt |-> Undefined]

NoResponse == [statusCode |-> 0, headers |-> [h \in {} |-> ""], body |-> <<>>]

Returned(response, steps) ==
  [pc |-> "done", response |-> response, submission |-> NoSubmission,
   steps |-> steps, writes |-> 0]

\* The handler from its entry to its first return or to the await of
\* dynamodb.send: steps lists which of routing, parsing and the store call
\* the invocation reached.  now is the clock at the handler's first read
\* and later the clock at the second read, which only the submission makes.
HandlerStart(event, now, later) ==
  IF event.httpMethod = "OPTIONS" THEN Returned(PreflightResponse, {})
  ELSE IF IsHealthRoute(event.path, event.httpMethod)
       THEN Returned(HealthResponse(now), {"route"})
  ELSE IF IsContactRoute(event.path, event.httpMethod)
       THEN LET parsed == JSONParse(BodyOrDefault(event.body)) IN
            IF ~parsed.ok THEN Returned(ErrorResponse(parsed.error), {"route", "parse"})
            ELSE IF parsed.kind = "null"
                 THEN Returned(ErrorResponse(NullPropertyError), {"route", "parse"})
            ELSE [pc |-> "awaiting", response |-> NoResponse,
                  submission |-> Submission(parsed, now, later),
                  steps |-> {"route", "parse", "send"}, writes |-> 1]
  ELSE Returned(NotFoundResponse, {"route"})

TableName_DefaultOnly(contactsTable) == "portfolio-contacts"

\* process.env.CONTACTS_TABLE || 'portfolio-contacts': the variable may be
\* unset, and the empty string is falsy.
TableName(contactsTable) ==
  IF contactsTable.set /\ contactsTable.value # ""
  THEN contactsTable.value ELSE "portfolio-contacts"

\* PutCommand on a table whose hash key is id: the item replaces any item
\* with the same id.
Put(table, item) == {r \in table : r.id # item.id} \cup {item}

(***************************************************************************)
(* Requests.                                                               *)
(***************************************************************************)
NoBody == [present |-> FALSE, text |-> <<>>]
Text(toks) == [present |-> TRUE, text |-> toks]

Member(key, value) == <<TStr(key), Colon, TStr(value)>>

FullBody ==
  <<LBrace>> \o Member("name", "A") \o <<Comma>> \o Member("email", "a@b.com")
  \o <<Comma>> \o Member("subject", "S") \o <<Comma>> \o Member("message", "hi")
  \o <<RBrace>>
NoSubjectBody ==
  <<LBrace>> \o Member("name", "A") \o <<Comma>> \o Member("email", "a@b.com")
  \o <<Comma>> \o Member("message", "hi") \o <<RBrace>>
NoNameBody ==
  <<LBrace>> \o Member("email", "a@b.com") \o <<Comma>> \o Member("message", "hi")
  \o <<RBrace>>
ClientIdBody ==
  <<LBrace>> \o Member("name", "A") \o <<Comma>> \o Member("email", "a@b.com")
  \o <<Comma>> \o Member("subject", "S") \o <<Comma>> \o Member("message", "hi")
  \o <<Comma, TStr("id"), Colon, TNum(7), Comma>>
  \o Member("createdAt", "2000-01-01T00:00:00.000Z") \o <<RBrace>>
ExtraFieldBody ==
  <<LBrace>> \o Member("name", "A") \o <<Comma>> \o Member("email", "a@b.com")
  \o <<Comma>> \o Member("subject", "S") \o <<Comma>> \o Member("message", "hi")
  \o <<Comma, Space>> \o Member("role", "admin") \o <<RBrace>>
TruncatedBody == <<LBrace, TStr("name")>>
BadTokenBody == <<LBrace, TStr("name"), Comma>>
NullBody == <<TNull>>

Methods == {"OPTIONS", "GET", "POST"}
Paths == {"/health", "/api/health", "/api/contact", "/api/unknown"}
Bodies ==
  {NoBody, Text(<<>>), Text(FullBody), Text(NoSubjectBody), Text(NoNameBody),
   Text(ClientIdBody), Text(ExtraFieldBody),
   Text(TruncatedBody), Text(BadTokenBody), Text(NullBody)}
\* Every body on the contact submission, which reads it; no body and a
\* malformed one on the other requests, and a full submission on the
\* preflight too, which must ignore it.
Events ==
  {e \in [httpMethod : Methods, path : Paths, body : Bodies] :
     \/ (e.httpMethod = "POST" /\ e.path = "/api/contact")
     \/ e.body \in {NoBody, Text(BadTokenBody)}
     \/ (e.httpMethod = "OPTIONS" /\ e.body = Text(FullBody))}

\* Messages of the errors dynamodb.send may reject with.
StoreErrors == {"Requested resource not found", "Service Unavailable"}

\* The values of process.env.CONTACTS_TABLE: unset, empty, a table name.
ContactsTableValues ==
  {[set |-> FALSE, value |-> ""], [set |-> TRUE, value |-> ""],
   [set |-> TRUE, value |-> "my-contacts"]}
TableNames == {"portfolio-contacts", "my-contacts"}

\* The invocations of the function; they may overlap in time.
Invocations == {"inv1", "inv2"}

(***************************************************************************)
(* State.                                                                  *)
(***************************************************************************)
VARIABLES
  clock,   \* Date.now(), epoch milliseconds
  store,   \* the items of each table of the managed store
  inv,     \* per invocation: its position, event, record and response
  env,     \* process.env.CONTACTS_TABLE
  \* the animation engine
  gwindow,   \* window.innerWidth and window.innerHeight, in px
  canvas,    \* canvasRef.current: whether it is attached, whether it gives a
             \* 2D context, and its size in px
  mounted,   \* whether GalaxyBackground is mounted
  mounts,    \* number of runs of its effect
  cleanup,   \* the engine whose cleanup function React holds, or 0
  engines,   \* per effect run that got a context: its particle arrays,
             \* whether its resize listener is registered and whether a
             \* frame callback is pending
  drawn,     \* per engine, the drawing calls it made in the latest frame
  frames,    \* number of display refreshes that ran frame callbacks
  \* the contact form
  formData,  \* the four fields of the form
  mutation,  \* the useMutation state: status, variables and error
  toasts,    \* the notifications shown
  submits,   \* number of submissions issued
  edited     \* whether a field was edited while the latest request was pending

lambdaVars == <<clock, store, inv, env>>
galaxyVars == <<gwindow, canvas, mounted, mounts, cleanup, engines, drawn, frames>>
formVars == <<formData, mutation, toasts, submits, edited>>
vars == <<lambdaVars, galaxyVars, formVars>>

\* The state of the page's components before they mount.
NoCanvas == [present |-> FALSE, context |-> FALSE, width |-> 300, height |-> 150]
EmptyForm == [name |-> "", email |-> "", subject |-> "", message |-> ""]
NoMutation == [status |-> "idle", variables |-> EmptyForm, error |-> ""]
NothingDrawn == <<>>

GalaxyOff ==
  /\ gwindow = [innerWidth |-> 20, innerHeight |-> 16]
  /\ canvas = NoCanvas
  /\ mounted = FALSE /\ mounts = 0 /\ cleanup = 0
  /\ engines = <<>> /\ drawn = NothingDrawn /\ frames = 0

FormOff ==
  /\ formData = EmptyForm /\ mutation = NoMutation
  /\ toasts = <<>> /\ submits = 0 /\ edited = FALSE

Idle ==
  [pc |-> "idle", response |-> NoResponse, submission |-> NoSubmission,
   steps |-> {}, writes |-> 0,
   event |-> [httpMethod |-> "", path |-> "", body |-> NoBody],
   now |-> 0, later |-> 0, after |-> {}, sent |-> "none"]

Init ==
  /\ clock = ClockStart
  /\ store = [t \in TableNames |-> {}]
  /\ env \in ContactsTableValues
  /\ GalaxyOff /\ FormOff
  /\ inv = [i \in Invocations |-> Idle]

\* The response the handler returns once dynamodb.send has settled.
AfterSend(submission, ok, errorMessage) ==
  IF ok THEN SuccessResponse(submission) ELSE ErrorResponse(errorMessage)

\* The clock values the handler's second read may see after reading now.
LaterReads(now) ==
  {t \in now..(now + MaxElapsed) : t <= ClockStart + MaxTicks}

\* The function is invoked with an event: the handler runs to its first
\* return or to the await of the store write.  The clock may advance
\* between the two reads a submission makes.
Invoke(i, event) ==
  /\ inv[i].pc = "idle"
  /\ \E later \in IF IsContactRoute(event.path, event.httpMethod)
                  THEN LaterReads(clock) ELSE {clock} :
       LET started == HandlerStart(event, clock, later)
           read == IF started.pc = "awaiting" THEN later ELSE clock
       IN /\ inv' = [inv EXCEPT ![i] =
                       started
                       @@ [event |-> event, now |-> clock, later |-> read,
                           after |-> {j \in Invocations : inv[j].pc = "done"},
                           sent |-> "none"]]
          /\ clock' = read
  /\ UNCHANGED <<store, env, galaxyVars, formVars>>

\* The store write of an awaiting invocation succeeds.
SendResolves(i) ==
  /\ inv[i].pc = "awaiting"
  /\ store' = [store EXCEPT ![TableName(env)] = Put(@, inv[i].submission)]
  /\ inv' = [inv EXCEPT ![i].pc = "done", ![i].sent = "ok",
                        ![i].response = AfterSend(inv[i].submission, TRUE, "")]
  /\ UNCHANGED <<clock, env, galaxyVars, formVars>>

\* The store write of an awaiting invocation fails.
SendRejects(i, errorMessage) ==
  /\ inv[i].pc = "awaiting"
  /\ inv' = [inv EXCEPT ![i].pc = "done", ![i].sent = "failed",
                        ![i].response = AfterSend(inv[i].submission, FALSE, errorMessage)]
  /\ UNCHANGED <<clock, store, env, galaxyVars, formVars>>

\* A millisecond passes.
Tick ==
  /\ clock < ClockStart + MaxTicks
  /\ clock' = clock + 1
  /\ UNCHANGED <<store, inv, env, galaxyVars, formVars>>

Next ==
  \/ \E i \in Invocations, event \in Events : Invoke(i, event)
  \/ \E i \in Invocations : SendResolves(i)
  \/ \E i \in Invocations, errorMessage \in StoreErrors : SendRejects(i, errorMessage)
  \/ Tick

Spec == Init /\ [][Next]_vars

TypeOK ==
  /\ clock \in ClockStart..(ClockStart + MaxTicks)
  /\ \A i \in Invocations : inv[i].pc \in {"idle", "awaiting", "done"}

(***************************************************************************)
(* Vocabulary of the properties.                                           *)
(***************************************************************************)
Done(i) == inv[i].pc = "done"
\* The items of the store, over all its tables.
AllItems == UNION {store[t] : t \in TableNames}
Status(i) == inv[i].response.statusCode
IsContactPost(e) == e.httpMethod = "POST" /\ e.path = "/api/contact"

\* The request body as the handler parses it.
ParsedBody(e) == JSONParse(IF e.body.present /\ e.body.text # <<>>
                           THEN e.body.text ELSE <<LBrace, RBrace>>)
Has(e, key) == key \in DOMAIN ParsedBody(e).props
HasRequired(e) ==
  /\ ParsedBody(e).ok
  /\ Has(e, "name") /\ Has(e, "email") /\ Has(e, "message")
LacksRequired(e) ==
  /\ ParsedBody(e).ok
  /\ ParsedBody(e).kind # "null"
  /\ ~(Has(e, "name") /\ Has(e, "email") /\ Has(e, "message"))
ParseFails(e) == ~ParsedBody(e).ok \/ ParsedBody(e).kind = "null"

\* The response body read back as JSON by the caller.
ResponseJson(i) == JSONParse(inv[i].response.body)
ResponseProp(i, key) ==
  IF ResponseJson(i).ok /\ key \in DOMAIN ResponseJson(i).props
  THEN ResponseJson(i).props[key] ELSE Undefined

HasCorsHeaders(h) ==
  /\ {"Access-Control-Allow-Origin", "Access-Control-Allow-Headers",
      "Access-Control-Allow-Methods"} \subseteq DOMAIN h
  /\ h["Access-Control-Allow-Origin"] = "*"
  /\ h["Access-Control-Allow-Headers"] =
       "Content-Type,X-Amz-Date,Authorization,X-Api-Key,X-Amz-Security-Token"
  /\ h["Access-Control-Allow-Methods"] = "GET,POST,PUT,DELETE,OPTIONS"

(***************************************************************************)
(* C1.  A POST /api/contact whose parsed body lacks name, email or         *)
(* message (a missing or empty body included) is answered with 400 and     *)
(* writes nothing.  The handler has no validation step: it sends the       *)
(* record with the fields undefined.                                       *)
(***************************************************************************)
C1_MissingFieldRejected ==
  \A i \in Invocations :
    (Done(i) /\ IsContactPost(inv[i].event) /\ LacksRequired(inv[i].event))
      => (Status(i) = 400 /\ inv[i].writes = 0)

(***************************************************************************)
(* C2.  A POST /api/contact whose body has name, email and message and     *)
(* whose store write succeeds issues exactly one write and returns 200     *)
(* with a numeric id equal to the id of the record it wrote, which is the  *)
(* id of an item of the table.                                             *)
(***************************************************************************)
C2_SuccessReturnsWrittenId ==
  \A i \in Invocations :
    (Done(i) /\ IsContactPost(inv[i].event) /\ HasRequired(inv[i].event)
     /\ inv[i].sent = "ok")
      => /\ inv[i].writes = 1
         /\ Status(i) = 200
         /\ ResponseProp(i, "id").t = "number"
         /\ ResponseProp(i, "id") = inv[i].submission.id
         /\ ResponseProp(i, "id").n = inv[i].now
         /\ \E r \in AllItems : r.id = ResponseProp(i, "id")

C2_Witness ==
  \E i \in Invocations :
    /\ Done(i) /\ IsContactPost(inv[i].event) /\ inv[i].sent = "ok"
    /\ inv[i].event.body = Text(NoSubjectBody)
    /\ Status(i) = 200

(***************************************************************************)
(* C3.  Two invocations answered with 500 return identical bodies, so no   *)
(* detail of the underlying error reaches the caller.  The catch block     *)
(* puts error.message in the body.                                         *)
(***************************************************************************)
C3_ErrorBodyGeneric ==
  \A i, j \in Invocations :
    (Done(i) /\ Done(j) /\ Status(i) = 500 /\ Status(j) = 500)
      => inv[i].response.body = inv[j].response.body

(***************************************************************************)
(* C4.  A POST /api/contact whose body fails to parse or whose store write *)
(* fails is answered with 500, and no invocation makes more than one write *)
(* attempt.                                                                *)
(***************************************************************************)
C4_FailureIs500NoRetry ==
  \A i \in Invocations :
    /\ inv[i].writes <= 1
    /\ (Done(i) /\ IsContactPost(inv[i].event)
        /\ (ParseFails(inv[i].event) \/ inv[i].sent = "failed"))
         => (Status(i) = 500 /\ inv[i].writes = (IF inv[i].sent = "failed" THEN 1 ELSE 0))

C4_Witness ==
  \E i, j \in Invocations :
    /\ Done(i) /\ IsContactPost(inv[i].event) /\ ParseFails(inv[i].event)
    /\ Status(i) = 500
    /\ Done(j) /\ inv[j].sent = "failed" /\ Status(j) = 500

(***************************************************************************)
(* C5.  Two sequential POST /api/contact invocations with the same valid   *)
(* body that both return 200 return different ids and leave two distinct   *)
(* records in the table.  The id is Date.now(): within one millisecond the *)
(* two ids are equal and the second item replaces the first.               *)
(***************************************************************************)
C5_SequentialIdsDiffer ==
  \A i, j \in Invocations :
    (/\ Done(i) /\ Done(j) /\ i \in inv[j].after
     /\ IsContactPost(inv[i].event) /\ inv[j].event = inv[i].event
     /\ HasRequired(inv[i].event)
     /\ Status(i) = 200 /\ Status(j) = 200)
      => /\ ResponseProp(i, "id") # ResponseProp(j, "id")
         /\ \E r1, r2 \in AllItems :
              /\ r1 # r2
              /\ r1.id = ResponseProp(i, "id")
              /\ r2.id = ResponseProp(j, "id")

(***************************************************************************)
(* C6.  Under any interleaving, the record of every submission             *)
(* acknowledged with 200 is in the table with its original field values.   *)
(* Two invocations in the same millisecond use the same key.  Stated for   *)
(* the runs whose requests all carry name, email and message.              *)
(***************************************************************************)
C6_AcknowledgedRecordKept ==
  \A i \in Invocations :
    (/\ Done(i) /\ IsContactPost(inv[i].event) /\ Status(i) = 200
     /\ \A j \in Invocations : inv[j].pc = "idle" \/ HasRequired(inv[j].event))
      => inv[i].submission \in AllItems

(***************************************************************************)
(* C7.  GET /health and GET /api/health both return 200 with status "ok"   *)
(* and the ISO-8601 timestamp of the current time.  The handler routes     *)
(* /health only.                                                           *)
(***************************************************************************)
C7_BothHealthPaths ==
  \A i \in Invocations :
    (Done(i) /\ inv[i].event.httpMethod = "GET"
     /\ inv[i].event.path \in {"/health", "/api/health"})
      => /\ Status(i) = 200
         /\ ResponseProp(i, "status") = Str("ok")
         /\ ResponseProp(i, "timestamp") = Str(ToISOString(inv[i].now))
         /\ TimeValue(DateFields(inv[i].now)) = inv[i].now

(***************************************************************************)
(* C8.  An OPTIONS request, whatever its path and body, returns 200 with   *)
(* an empty body and the three CORS headers, and reaches neither routing,  *)
(* parsing nor the store.                                                  *)
(***************************************************************************)
C8_PreflightAnyPath ==
  \A i \in Invocations :
    (inv[i].pc # "idle" /\ inv[i].event.httpMethod = "OPTIONS")
      => /\ Done(i)
         /\ Status(i) = 200
         /\ inv[i].response.body = <<>>
         /\ HasCorsHeaders(inv[i].response.headers)
         /\ inv[i].steps = {}
         /\ inv[i].writes = 0

C8_Witness ==
  \E i \in Invocations :
    /\ Done(i) /\ inv[i].event.httpMethod = "OPTIONS"
    /\ inv[i].event.path = "/api/contact"
    /\ inv[i].event.body = Text(BadTokenBody)
    /\ Status(i) = 200

(***************************************************************************)
(* C9.  A request other than OPTIONS whose method and path are not a route *)
(* of the interface (GET /health, GET /api/health, POST /api/contact)      *)
(* returns 404 with the body {message: "Not Found"}; a defined path with   *)
(* the wrong method is such a request.                                     *)
(***************************************************************************)
DefinedRoutes ==
  {<<"GET", "/health">>, <<"GET", "/api/health">>, <<"POST", "/api/contact">>}

C9_UndefinedRouteIs404 ==
  \A i \in Invocations :
    (/\ inv[i].pc # "idle" /\ inv[i].event.httpMethod # "OPTIONS"
     /\ <<inv[i].event.httpMethod, inv[i].event.path>> \notin DefinedRoutes)
      => /\ Done(i)
         /\ Status(i) = 404
         /\ inv[i].response.body =
              <<LBrace, TStr("message"), Colon, TStr("Not Found"), RBrace>>

C9_Witness ==
  \E i, j \in Invocations :
    /\ Done(i) /\ inv[i].event.httpMethod = "GET"
    /\ inv[i].event.path = "/api/contact" /\ Status(i) = 404
    /\ Done(j) /\ inv[j].event.httpMethod = "POST"
    /\ inv[j].event.path = "/health" /\ Status(j) = 404

(***************************************************************************)
(* C10.  Every response, whatever its status and route, carries the three  *)
(* permissive CORS headers.                                                *)
(***************************************************************************)
C10_EveryResponseHasCors ==
  \A i \in Invocations :
    Done(i) => HasCorsHeaders(inv[i].response.headers)

C10_Witness ==
  \E i, j \in Invocations :
    /\ Done(i) /\ Status(i) = 500
    /\ Done(j) /\ Status(j) \in {200, 404} /\ inv[j].event.httpMethod # "OPTIONS"

(***************************************************************************)
(* C11.  The id and createdAt of a persisted record come from the          *)
(* handler's clock alone: two POST /api/contact invocations whose clock    *)
(* reads are the same and whose bodies differ only in client-supplied id   *)
(* or createdAt fields persist records with the same id and createdAt,     *)
(* which are the clock value read for id and the ISO-8601 rendering of     *)
(* the clock value read for createdAt.                                     *)
(***************************************************************************)
\* The parsed body without the properties id and createdAt.
WithoutClientKeys(e) ==
  LET props == ParsedBody(e).props
  IN [key \in (DOMAIN props) \ {"id", "createdAt"} |-> props[key]]

Persisted(i) == Done(i) /\ inv[i].sent = "ok"

C11_IdFromClockAlone ==
  \A i, j \in Invocations :
    (/\ Persisted(i) /\ Persisted(j)
     /\ inv[i].now = inv[j].now /\ inv[i].later = inv[j].later
     /\ WithoutClientKeys(inv[i].event) = WithoutClientKeys(inv[j].event))
      => /\ inv[i].submission.id = inv[j].submission.id
         /\ inv[i].submission.createdAt = inv[j].submission.createdAt
         /\ inv[i].submission.id = Num(inv[i].now)
         /\ inv[i].submission.createdAt = Str(ToISOString(inv[i].later))
         /\ \A r \in AllItems :
              r.id = inv[i].submission.id
                => \E k \in Invocations :
                     /\ Persisted(k) /\ inv[k].now = inv[i].now
                     /\ r.createdAt = Str(ToISOString(inv[k].later))

C11_Witness ==
  \E i, j \in Invocations :
    /\ Persisted(i) /\ Persisted(j)
    /\ inv[i].now = inv[j].now /\ inv[i].later = inv[j].later
    /\ inv[i].event.body = Text(FullBody)
    /\ inv[j].event.body = Text(ClientIdBody)
    /\ IsContactPost(inv[i].event) /\ IsContactPost(inv[j].event)

(***************************************************************************)
(* C12.  Every record written by POST /api/contact has exactly the fields  *)
(* id, name, email, subject, message and createdAt, with name, email,      *)
(* subject and message equal to the request body's values and no other     *)
(* body field persisted, and it is written to the table named by the       *)
(* environment variable or, when that is unset (or empty), to the default  *)
(* table portfolio-contacts.                                               *)
(***************************************************************************)
RecordFields == {"id", "name", "email", "subject", "message", "createdAt"}

BodyValue(e, key) ==
  IF key \in DOMAIN ParsedBody(e).props THEN ParsedBody(e).props[key] ELSE Undefined

ConfiguredTable ==
  IF env.set /\ env.value # "" THEN env.value ELSE "portfolio-contacts"

C12_RecordShapeAndTable ==
  /\ \A t \in TableNames : store[t] # {} => t = ConfiguredTable
  /\ (~env.set /\ AllItems # {}) => store["portfolio-contacts"] # {}
  /\ \A r \in AllItems : DOMAIN r = RecordFields
  /\ \A i \in Invocations :
       Persisted(i) =>
         /\ DOMAIN inv[i].submission = RecordFields
         /\ \A key \in {"name", "email", "subject", "message"} :
              inv[i].submission[key] = BodyValue(inv[i].event, key)
         /\ \E r \in store[ConfiguredTable] : r.id = inv[i].submission.id

C12_Witness ==
  \E i, j \in Invocations :
    /\ Persisted(i) /\ inv[i].event.body = Text(ExtraFieldBody)
    /\ Persisted(j) /\ inv[j].event.body = Text(NoSubjectBody)
    /\ inv[i].submission \in store["my-contacts"]

(***************************************************************************)
(* The particle animation engine, GalaxyBackground of                      *)
(* client/src/components/galaxy-background.tsx.                            *)
(*                                                                         *)
(* Real numbers are fixed-point integers in thousandths: a position of     *)
(* 14000 is 14 px, a phase of 3142 is pi, an opacity of 1000 is 1.         *)
(* Math.random() is a value in 0..999; each effect run and each frame      *)
(* reads its random numbers, in call order, from a cyclic stream.          *)
(***************************************************************************)
\* Population sizes of the model (the component creates 300 stars,
\* 12 nebula clouds and 150 dust particles).
starCount == 2
nebulaCount == 1
dustCount == 1
\* Effect runs and display refreshes during a run, taken together.
MaxRuns == 4

\* The k-th Math.random() of a stream.
Rand(rs, k) == rs[((k - 1) % Len(rs)) + 1]

\* Math.sin on thousandths of a radian, by Bhaskara's approximation on each
\* half period; the value is in -1000..1000.
HalfSine(x) ==
  LET p == (x * (3142 - x)) \div 1000
  IN (16000 * p) \div (49361 - 4 * p)
MathSin(x) ==
  LET xr == x % 6284
  IN IF xr <= 3142 THEN HalfSine(xr) ELSE 0 - HalfSine(xr - 3142)
MathCos(x) == MathSin(x + 1571)

\* Thousandths times thousandths, in thousandths.
Mul(a, b) == (a * b) \div 1000

\* The star pushed by the creation loop from the 7 random numbers at k.
NewStar(rs, k, cv) ==
  [x |-> Rand(rs, k) * cv.width,
   y |-> Rand(rs, k + 1) * cv.height,
   size |-> Rand(rs, k + 2) * 3 + 500,
   brightness |-> Rand(rs, k + 3),
   twinkleSpeed |-> Mul(Rand(rs, k + 4), 80) + 20,
   twinklePhase |-> Mul(Rand(rs, k + 5), 6284),
   color |-> (Rand(rs, k + 6) * 5) \div 1000]

NewNebula(rs, k, cv) ==
  [x |-> Rand(rs, k) * cv.width,
   y |-> Rand(rs, k + 1) * cv.height,
   radius |-> Rand(rs, k + 2) * 150 + 50000,
   opacity |-> Mul(Rand(rs, k + 3), 300) + 100,
   rotation |-> 0,
   rotationSpeed |-> Mul(Rand(rs, k + 4) - 500, 20),
   pulsePhase |-> Mul(Rand(rs, k + 5), 6284),
   color |-> (Rand(rs, k + 6) * 5) \div 1000]

NewDust(rs, k, cv) ==
  [x |-> Rand(rs, k) * cv.width,
   y |-> Rand(rs, k + 1) * cv.height,
   vx |-> (Rand(rs, k + 2) - 500) * 2,
   vy |-> (Rand(rs, k + 3) - 500) * 2,
   size |-> (Rand(rs, k + 4) * 5) \div 2 + 500,
   opacity |-> Mul(Rand(rs, k + 5), 900) + 300,
   life |-> Rand(rs, k + 6) * 1000,
   maxLife |-> 1000000]

\* The shooting star pushed by createShootingStar from the 6 random numbers
\* at k.  Two fields are bookkeeping of the model: id numbers the stars of
\* an engine in spawn order and age counts the updates of the star.
NewShootingStar(rs, k, cv, id) ==
  [x |-> Rand(rs, k) * cv.width,
   y |-> (Rand(rs, k + 1) * cv.height) \div 2,
   vx |-> Rand(rs, k + 2) * 8 + 4000,
   vy |-> Rand(rs, k + 3) * 4 + 2000,
   length |-> Rand(rs, k + 4) * 80 + 50000,
   opacity |-> 1000,
   life |-> Rand(rs, k + 5) * 150 + 80000,
   id |-> id,
   age |-> 0]

\* A drawing call on the 2D context: its layer, the particle and the alpha.
Draw(layer, particle, alpha) == [layer |-> layer, particle |-> particle, alpha |-> alpha]

StarBrightness_Unscaled(star) ==
  Mul(star.brightness, 500 + MathSin(star.twinklePhase))

\* ctx.globalAlpha of drawStar.
StarBrightness(star) ==
  Mul(star.brightness, 500 + Mul(500, MathSin(star.twinklePhase)))

\* baseOpacity of drawNebula.
NebulaOpacity(cloud) ==
  Mul(cloud.opacity, 800 + Mul(400, MathSin(cloud.pulsePhase)))

\* The body of nebulaClouds.forEach, before the drawing.
MoveNebula(cloud) ==
  LET phase == cloud.pulsePhase + 80
  IN [cloud EXCEPT !.rotation = @ + cloud.rotationSpeed,
                   !.pulsePhase = phase,
                   !.x = @ + (MathSin(phase \div 2) * 3) \div 10,
                   !.y = @ + (MathCos((phase * 3) \div 10) * 2) \div 10]

\* The body of stars.forEach, before the drawing.
MoveStar(star) == [star EXCEPT !.twinklePhase = @ + star.twinkleSpeed]

\* The body of cosmicDust.forEach, before the drawing; r is the random
\* number read when the particle's life is reset.
MoveDust(dust, cv, r) ==
  LET x1 == dust.x + dust.vx
      y1 == dust.y + dust.vy
      x2 == IF x1 < 0 THEN cv.width * 1000 ELSE x1
      x3 == IF x2 > cv.width * 1000 THEN 0 ELSE x2
      y2 == IF y1 < 0 THEN cv.height * 1000 ELSE y1
      y3 == IF y2 > cv.height * 1000 THEN 0 ELSE y2
      life1 == dust.life - 1000
  IN [dust EXCEPT !.x = x3, !.y = y3,
                  !.life = IF life1 <= 0 THEN dust.maxLife ELSE life1,
                  !.opacity = IF life1 <= 0 THEN Mul(r, 800) + 200 ELSE @]

DustAlpha(dust) == Mul(dust.opacity, (dust.life * 1000) \div dust.maxLife)

RECURSIVE ForEachDust(_, _, _, _, _)
\* cosmicDust.forEach from particle i on; k is the index of the next random
\* number, read only by a particle whose life is reset.
ForEachDust(dusts, i, cv, rs, k) ==
  IF i > Len(dusts) THEN [cosmicDust |-> dusts, k |-> k]
  ELSE LET resets == dusts[i].life - 1000 <= 0
       IN ForEachDust([dusts EXCEPT ![i] = MoveDust(dusts[i], cv, Rand(rs, k))],
                      i + 1, cv, rs, IF resets THEN k + 1 ELSE k)

\* createShootingStar: one random number decides the spawn, six more make
\* the star.
createShootingStar(shootingStars, rs, k, cv, id) ==
  IF Rand(rs, k) < 8
  THEN Append(shootingStars, NewShootingStar(rs, k + 1, cv, id))
  ELSE shootingStars

\* The update of a shooting star at the top of the forEach callback.
MoveShootingStar(star) ==
  [star EXCEPT !.x = @ + star.vx, !.y = @ + star.vy,
               !.life = @ - 1000,
               !.opacity = (star.life - 1000) \div 100,
               !.age = @ + 1]

\* The removal test of the forEach callback.
IsGone(star, cv) ==
  \/ star.life <= 0
  \/ star.x > cv.width * 1000
  \/ star.y > cv.height * 1000

\* Whether the forEach callback visits the element at index of the array
\* forEach started with.  forEach visits the indices 0, 1, 2, ... of the
\* array as it is at each call; a splice at the visited index moves the
\* next element into that index, and it is not visited.  So an element is
\* passed over exactly when the one before it was visited and removed:
\* in a row of elements that a visit would remove, every second one is
\* visited.  gone[i] tells whether a visit removes element i.
IsVisited(gone, index) ==
  IF index = 1 \/ ~gone[index - 1] THEN TRUE
  ELSE IF index = 2 \/ ~gone[index - 2] THEN FALSE
  ELSE LET row == {i \in 1..(index - 1) : \A h \in i..(index - 1) : gone[h]}
       IN Cardinality(row) % 2 = 0

IsKept(entry) == ~(entry.visited /\ entry.gone)
IsDrawn(entry) == entry.visited /\ ~entry.gone
DrawShootingStar(entry) == Draw("shootingStar", entry.star.id, entry.star.opacity)
StarOf(entry) == entry.star

\* shootingStars.forEach with the splice inside the callback: the array it
\* leaves and the drawing calls it makes.
ForEachShootingStar(arr, cv) ==
  LET moved == [i \in 1..Len(arr) |-> MoveShootingStar(arr[i])]
      gone == [i \in 1..Len(arr) |-> IsGone(moved[i], cv)]
      entries == [i \in 1..Len(arr) |->
                    LET visited == IsVisited(gone, i)
                    IN [star |-> IF visited THEN moved[i] ELSE arr[i],
                        visited |-> visited,
                        gone |-> gone[i]]]
      kept == SelectSeq(entries, IsKept)
      shown == SelectSeq(entries, IsDrawn)
  IN [shootingStars |-> [i \in 1..Len(kept) |-> StarOf(kept[i])],
      draws |-> [i \in 1..Len(shown) |-> DrawShootingStar(shown[i])]]

DrawingCalls_StarsFirst(clouds, dusts, stars, shootingDraws) ==
  <<Draw("background", 0, 1000)>>
  \o [i \in 1..Len(stars) |-> Draw("star", i, StarBrightness(stars[i]))]
  \o [i \in 1..Len(clouds) |-> Draw("nebula", i, NebulaOpacity(clouds[i]))]
  \o [i \in 1..Len(dusts) |-> Draw("dust", i, DustAlpha(dusts[i]))]
  \o shootingDraws

\* The drawing calls of one call of animate, in the order of its
\* statements: the background fill, then each loop's drawing as it updates
\* its particles.
DrawingCalls(clouds, dusts, stars, shootingDraws) ==
  <<Draw("background", 0, 1000)>>
  \o [i \in 1..Len(clouds) |-> Draw("nebula", i, NebulaOpacity(clouds[i]))]
  \o [i \in 1..Len(dusts) |-> Draw("dust", i, DustAlpha(dusts[i]))]
  \o [i \in 1..Len(stars) |-> Draw("star", i, StarBrightness(stars[i]))]
  \o shootingDraws

\* One call of animate on an engine's particle arrays, reading its random
\* numbers from index k of rs: the new arrays, the drawing calls in order
\* and the index of the next random number.  The call ends with
\* requestAnimationFrame(animate).
animate(engine, cv, rs, k) ==
  LET clouds == [i \in 1..Len(engine.nebulaClouds) |-> MoveNebula(engine.nebulaClouds[i])]
      dust == ForEachDust(engine.cosmicDust, 1, cv, rs, k)
      stars == [i \in 1..Len(engine.stars) |-> MoveStar(engine.stars[i])]
      spawns == Rand(rs, dust.k) < 8
      spawned == createShootingStar(engine.shootingStars, rs, dust.k, cv,
                                    engine.spawned + 1)
      shooting == ForEachShootingStar(spawned, cv)
  IN [engine |-> [engine EXCEPT !.nebulaClouds = clouds,
                                !.cosmicDust = dust.cosmicDust,
                                !.stars = stars,
                                !.shootingStars = shooting.shootingStars,
                                !.spawned = IF spawns THEN @ + 1 ELSE @,
                                !.raf = TRUE],
      drawn |-> DrawingCalls(clouds, dust.cosmicDust, stars, shooting.draws),
      k |-> dust.k + (IF spawns THEN 7 ELSE 1)]

HasContext_CanvasOnly(cv) == cv.present

\* const canvas = canvasRef.current; if (!canvas) return;
\* const ctx = canvas.getContext('2d'); if (!ctx) return;
HasContext(cv) == cv.present /\ cv.context

\* resizeCanvas: the canvas takes the size of the window.
resizeCanvas(cv, window) ==
  [cv EXCEPT !.width = window.innerWidth, !.height = window.innerHeight]

\* The effect of GalaxyBackground up to the first call of animate: the
\* engine it creates on a canvas that has a 2D context.
NewEngine(cv, rs) ==
  [stars |-> [i \in 1..starCount |-> NewStar(rs, 1 + 7 * (i - 1), cv)],
   nebulaClouds |->
     [i \in 1..nebulaCount |-> NewNebula(rs, 1 + 7 * (starCount + i - 1), cv)],
   cosmicDust |->
     [i \in 1..dustCount |->
        NewDust(rs, 1 + 7 * (starCount + nebulaCount + i - 1), cv)],
   shootingStars |-> <<>>,
   spawned |-> 0,
   listening |-> TRUE,
   raf |-> FALSE]

(***************************************************************************)
(* The engine as a state machine: the effect, the frame callback, the      *)
(* resize listener and the cleanup.                                        *)
(***************************************************************************)
WindowSizes ==
  {[innerWidth |-> 20, innerHeight |-> 16], [innerWidth |-> 12, innerHeight |-> 10]}

\* The canvas the ref holds: none, one without a 2D context, one with it.
Canvases ==
  {NoCanvas,
   [present |-> TRUE, context |-> FALSE, width |-> 300, height |-> 150],
   [present |-> TRUE, context |-> TRUE, width |-> 300, height |-> 150]}

\* Streams of Math.random() read by a frame: no spawn; a spawn at mid width
\* with the least speed and life; a spawn at the left edge with the longest
\* life.
Streams == {<<999>>, <<5, 500, 0, 0, 0, 0, 0>>, <<7, 0, 0, 0, 0, 0, 999>>}

\* Streams read by an effect run: bright stars near the far edges and no
\* spawn in the first frame; particles at the bottom edge, stars at the
\* peak of their twinkle, nebula clouds drifting down, dust about to expire
\* and a fast shooting star spawned in the first frame.
MountStreams == {<<999>>, <<5, 999, 0, 600, 300, 250, 2>>}

LambdaOff ==
  /\ clock = ClockStart
  /\ store = [t \in TableNames |-> {}]
  /\ inv = [i \in Invocations |-> Idle]
  /\ env = [set |-> FALSE, value |-> ""]

InitGalaxy ==
  /\ gwindow \in WindowSizes
  /\ canvas \in Canvases
  /\ mounted = FALSE /\ mounts = 0 /\ cleanup = 0
  /\ engines = <<>> /\ drawn = NothingDrawn /\ frames = 0
  /\ LambdaOff /\ FormOff

\* GalaxyBackground mounts and its effect runs: without a canvas or a context
\* it returns at once; otherwise it sizes the canvas, registers the resize
\* listener, creates the particles and calls animate.
Mount(rs) ==
  /\ ~mounted /\ mounts + frames < MaxRuns
  /\ mounted' = TRUE
  /\ mounts' = mounts + 1
  /\ IF ~HasContext(canvas)
     THEN UNCHANGED <<canvas, cleanup, engines, drawn>>
     ELSE LET sized == resizeCanvas(canvas, gwindow)
              first == animate(NewEngine(sized, rs), sized, rs,
                               1 + 7 * (starCount + nebulaCount + dustCount))
          IN /\ canvas' = sized
             /\ engines' = Append(engines, first.engine)
             /\ drawn' = Append([e \in 1..Len(engines) |-> <<>>], first.drawn)
             /\ cleanup' = Len(engines) + 1
  /\ UNCHANGED <<gwindow, frames, lambdaVars, formVars>>

\* The browser runs the animation frame callbacks: every callback pending
\* at the start of the frame is called once, in the order of the engines.
\* Each callback reads its random numbers from the start of the frame's
\* stream.
RunCallbacks(engs, cv, rs) ==
  [e \in 1..Len(engs) |->
     IF engs[e].raf
     THEN animate([engs[e] EXCEPT !.raf = FALSE], cv, rs, 1)
     ELSE [engine |-> engs[e], drawn |-> <<>>, k |-> 1]]

\* A display refresh: the pending frame callbacks run.
Frame(rs) ==
  /\ \E e \in 1..Len(engines) : engines[e].raf
  /\ mounts + frames < MaxRuns
  /\ LET frame == RunCallbacks(engines, canvas, rs)
     IN /\ engines' = [e \in 1..Len(engines) |-> frame[e].engine]
        /\ drawn' = [e \in 1..Len(engines) |-> frame[e].drawn]
  /\ frames' = frames + 1
  /\ UNCHANGED <<gwindow, canvas, mounted, mounts, cleanup, lambdaVars, formVars>>

\* The window is resized: every registered resize listener runs.
Resize(size) ==
  /\ size # gwindow
  /\ gwindow' = size
  /\ canvas' = IF \E e \in 1..Len(engines) : engines[e].listening
               THEN resizeCanvas(canvas, size) ELSE canvas
  /\ UNCHANGED <<mounted, mounts, cleanup, engines, drawn, frames, lambdaVars, formVars>>

\* GalaxyBackground unmounts: React runs the cleanup the effect returned,
\* which removes the resize listener.
Teardown ==
  /\ mounted
  /\ mounted' = FALSE
  /\ cleanup' = 0
  /\ engines' = IF cleanup = 0 THEN engines
                ELSE [engines EXCEPT ![cleanup].listening = FALSE]
  /\ UNCHANGED <<gwindow, canvas, mounts, drawn, frames, lambdaVars, formVars>>

NextGalaxy ==
  \/ \E rs \in MountStreams : Mount(rs)
  \/ \E rs \in Streams : Frame(rs)
  \/ \E size \in WindowSizes : Resize(size)
  \/ Teardown

SpecGalaxy == InitGalaxy /\ [][NextGalaxy]_vars

(***************************************************************************)
(* The contact form, ContactSection of                                     *)
(* client/src/components/contact-section.tsx.  The request is made by      *)
(* apiRequest: it resolves, or it rejects with an error whose message may  *)
(* be empty.                                                               *)
(***************************************************************************)
\* Submissions issued during a run.
MaxSubmits == 2

Fields == {"name", "email", "subject", "message"}
\* What the user may type in a field: nothing, a word, an e-mail address.
FieldValues == {"", "a", "a@b"}
ErrorMessages == {"", "500: Internal server error"}

SuccessToast ==
  [title |-> "Message sent!",
   description |-> "Thanks for reaching out. I'll get back to you soon.",
   variant |-> "default"]

ErrorToast(message) ==
  [title |-> "Something went wrong",
   description |-> IF message # "" THEN message ELSE "Please try again later.",
   variant |-> "destructive"]

onSuccess_KeepsForm(form, shown) ==
  [formData |-> form, toasts |-> Append(shown, SuccessToast)]

\* onSuccess: the confirmation toast, then the form is reset.
onSuccess(form, shown) ==
  [formData |-> EmptyForm, toasts |-> Append(shown, SuccessToast)]

onError_ClearsForm(form, shown, message) ==
  [formData |-> EmptyForm, toasts |-> Append(shown, ErrorToast(message))]

\* onError: the destructive toast; the form state is not written.
onError(form, shown, message) ==
  [formData |-> form, toasts |-> Append(shown, ErrorToast(message))]

isPending == mutation.status = "pending"

\* A submit button that is never disabled.
SubmitDisabled_Never == FALSE

\* The submit button's disabled attribute.
SubmitDisabled == isPending

Letters ==
  {"a", "b", "c", "d", "e", "f", "g", "h", "i", "j", "k", "l", "m",
   "n", "o", "p", "q", "r", "s", "t", "u", "v", "w", "x", "y", "z",
   "A", "B", "C", "D", "E", "F", "G", "H", "I", "J", "K", "L", "M",
   "N", "O", "P", "Q", "R", "S", "T", "U", "V", "W", "X", "Y", "Z"}
Digits == {"0", "1", "2", "3", "4", "5", "6", "7", "8", "9"}
\* The characters of the part before the @ (but for the grave accent, which
\* a string of this module cannot hold) and of a label of the domain.
LocalChars ==
  Letters \cup Digits
  \cup {".", "!", "#", "$", "%", "&", "'", "*", "+", "/", "=", "?", "^", "_",
        "{", "|", "}", "~", "-"}
LabelChars == Letters \cup Digits \cup {"-"}

\* The browser's test of the value of an input of type email: a non-empty
\* local part, an @, and labels of 1 to 63 letters, digits and hyphens,
\* separated by dots, none beginning or ending with a hyphen.
IsEmailAddress(value) ==
  LET c == [i \in 1..Len(value) |-> SubSeq(value, i, i)]
      ats == {i \in 1..Len(value) : c[i] = "@"}
  IN /\ ats # {}
     /\ LET at == CHOOSE i \in ats : \A j \in ats : i <= j
            domain == (at + 1)..Len(value)
        IN /\ at > 1
           /\ \A i \in 1..(at - 1) : c[i] \in LocalChars
           /\ domain # {}
           /\ \A i \in domain : c[i] \in LabelChars \cup {"."}
           /\ c[at + 1] \notin {".", "-"}
           /\ c[Len(value)] \notin {".", "-"}
           /\ \A i \in domain :
                c[i] = "." => (c[i - 1] \notin {".", "-"} /\ c[i + 1] \notin {".", "-"})
           /\ \A i \in domain :
                i + 63 <= Len(value) => \E j \in i..(i + 63) : c[j] = "."

\* The browser's validation of the form: the four inputs are required and
\* the e-mail input is of type email.
Valid(form) ==
  /\ \A f \in Fields : form[f] # ""
  /\ IsEmailAddress(form.email)

InitForm ==
  /\ formData = EmptyForm /\ mutation = NoMutation
  /\ toasts = <<>> /\ submits = 0 /\ edited = FALSE
  /\ LambdaOff /\ GalaxyOff

\* The user edits one input.
handleChange(name, value) ==
  /\ formData[name] # value
  /\ formData' = [formData EXCEPT ![name] = value]
  /\ edited' = (edited \/ isPending)
  /\ UNCHANGED <<mutation, toasts, submits, lambdaVars, galaxyVars>>

\* The user submits the form: the button is enabled and the required
\* inputs are filled in; mutate(formData) starts the request.
handleSubmit ==
  /\ ~SubmitDisabled
  /\ Valid(formData)
  /\ submits < MaxSubmits
  /\ mutation' = [status |-> "pending", variables |-> formData, error |-> ""]
  /\ submits' = submits + 1
  /\ edited' = FALSE
  /\ UNCHANGED <<formData, toasts, lambdaVars, galaxyVars>>

\* The request resolves.
Resolves ==
  /\ isPending
  /\ LET after == onSuccess(formData, toasts)
     IN /\ formData' = after.formData
        /\ toasts' = after.toasts
  /\ mutation' = [mutation EXCEPT !.status = "success"]
  /\ UNCHANGED <<submits, edited, lambdaVars, galaxyVars>>

\* The request rejects with an error.
Rejects(message) ==
  /\ isPending
  /\ LET after == onError(formData, toasts, message)
     IN /\ formData' = after.formData
        /\ toasts' = after.toasts
  /\ mutation' = [mutation EXCEPT !.status = "error", !.error = message]
  /\ UNCHANGED <<submits, edited, lambdaVars, galaxyVars>>

NextForm ==
  \/ \E name \in Fields, value \in FieldValues : handleChange(name, value)
  \/ handleSubmit
  \/ Resolves
  \/ \E message \in ErrorMessages : Rejects(message)

SpecForm == InitForm /\ [][NextForm]_vars

(***************************************************************************)
(* Properties of the particle engine.                                      *)
(***************************************************************************)
\* The engine of the effect run whose cleanup is pending, 0 when there is
\* none.
Live == IF mounted THEN cleanup ELSE 0

InBounds(p, cv) ==
  /\ 0 <= p.x /\ p.x <= cv.width * 1000
  /\ 0 <= p.y /\ p.y <= cv.height * 1000

AllInBounds(engine, cv) ==
  /\ \A i \in 1..Len(engine.stars) : InBounds(engine.stars[i], cv)
  /\ \A i \in 1..Len(engine.nebulaClouds) : InBounds(engine.nebulaClouds[i], cv)
  /\ \A i \in 1..Len(engine.cosmicDust) : InBounds(engine.cosmicDust[i], cv)

\* A step in which the viewport is resized under a running engine.
ResizeStep == gwindow' # gwindow /\ Live # 0

(***************************************************************************)
(* C13.  After a viewport resize under a running engine, the canvas has    *)
(* the size of the window and every star, nebula cloud and dust particle   *)
(* of the engine lies within the new bounds.  The resize listener only     *)
(* sets the size of the canvas: the particles keep the positions they      *)
(* had, so those created near the far edges of a large viewport lie        *)
(* outside a smaller one.                                                  *)
(***************************************************************************)
C13_ResizeRegenerates ==
  [][ResizeStep =>
       /\ canvas'.width = gwindow'.innerWidth
       /\ canvas'.height = gwindow'.innerHeight
       /\ AllInBounds(engines'[Live], canvas')]_vars

\* A step in which the browser runs the frame callbacks.
FrameStep == frames' = frames + 1

\* The shooting star of engine e with the given id after the step, if it is
\* still in the active set.
Survivors(e, id) ==
  {j \in 1..Len(engines'[e].shootingStars) : engines'[e].shootingStars[j].id = id}

(***************************************************************************)
(* C14.  In every frame, every shooting star that is in the active set at  *)
(* the start of the frame and still in it at the end has a strictly        *)
(* smaller life counter at the end, also when another shooting star is     *)
(* removed in that frame.  The removal splices the array inside its own    *)
(* forEach, so the star that follows a removed one is not visited: its     *)
(* life, position and opacity stay as they were for that frame.            *)
(***************************************************************************)
C14_LifeStrictlyDecreases ==
  [][FrameStep =>
       \A e \in 1..Len(engines) :
         \A i \in 1..Len(engines[e].shootingStars) :
           \A j \in Survivors(e, engines[e].shootingStars[i].id) :
             engines'[e].shootingStars[j].life < engines[e].shootingStars[i].life]_vars

\* The star-layer drawing calls among the calls of a frame.
StarCalls(calls) == {c \in 1..Len(calls) : calls[c].layer = "star"}

\* The frame drew every star of the engine once, with an alpha between 0
\* and the star's base brightness.
StarsDrawnWithin(engine, calls) ==
  /\ Cardinality(StarCalls(calls)) = Len(engine.stars)
  /\ \A i \in 1..Len(engine.stars) :
       \E c \in StarCalls(calls) : calls[c].particle = i
  /\ \A c \in StarCalls(calls) :
       LET star == engine.stars[calls[c].particle]
       IN /\ 0 <= calls[c].alpha
          /\ calls[c].alpha <= star.brightness

\* From the old star to the new one the phase has advanced by the speed.
PhaseAdvanced(old, new) ==
  /\ old.twinkleSpeed > 0
  /\ new.twinkleSpeed = old.twinkleSpeed
  /\ new.brightness = old.brightness
  /\ new.twinklePhase = old.twinklePhase + old.twinkleSpeed
  /\ new.twinklePhase > old.twinklePhase

(***************************************************************************)
(* C15.  In every frame every star of an engine is drawn once with an      *)
(* alpha between 0 and its base brightness, and from one frame to the      *)
(* next its twinkle phase grows by its twinkle speed, which is positive    *)
(* and does not change; the base brightness does not change either.        *)
(***************************************************************************)
C15_StarBrightnessAndPhase ==
  [][/\ \A e \in 1..Len(engines') :
          drawn'[e] # <<>> => StarsDrawnWithin(engines'[e], drawn'[e])
     /\ FrameStep =>
          \A e \in 1..Len(engines) :
            /\ Len(engines'[e].stars) = Len(engines[e].stars)
            /\ \A i \in 1..Len(engines[e].stars) :
                 PhaseAdvanced(engines[e].stars[i], engines'[e].stars[i])]_vars

\* Two frames have run on an engine whose stars are at the peak of their
\* twinkle when created, so that the alpha has reached the base brightness
\* and left it again.
C15_Witness ==
  /\ frames >= 2
  /\ \E e \in 1..Len(engines) :
       \E c \in StarCalls(drawn[e]) :
         /\ engines[e].stars[drawn[e][c].particle].brightness = 600
         /\ drawn[e][c].alpha > 0
         /\ drawn[e][c].alpha < 600

(***************************************************************************)
(* C16.  Once the component is torn down no frame callback is pending      *)
(* and no frame runs until it is mounted again.  The cleanup of the        *)
(* effect only removes the resize listener: the callback registered by     *)
(* the last call of animate stays pending, runs at the next display        *)
(* refresh and registers itself again.                                     *)
(***************************************************************************)
C16_TeardownCancelsLoop ==
  [][/\ ~mounted' => \A e \in 1..Len(engines') : ~engines'[e].raf
     /\ ~mounted => ~FrameStep]_vars

(***************************************************************************)
(* C17.  When the ref holds no canvas, or the canvas gives no 2D context,  *)
(* the effect returns at once: however often the component is mounted,     *)
(* the window resized and the display refreshed, no engine exists (no      *)
(* particles, no resize listener, no pending frame callback), nothing is   *)
(* drawn, no frame runs and the canvas keeps the size it had.              *)
(***************************************************************************)
C17_NoContextNoWork ==
  (~canvas.present \/ ~canvas.context) =>
    /\ engines = <<>>
    /\ drawn = NothingDrawn
    /\ frames = 0
    /\ cleanup = 0
    /\ canvas.width = NoCanvas.width /\ canvas.height = NoCanvas.height

\* The component has been mounted twice on a canvas without a 2D context.
C17_Witness ==
  /\ canvas.present /\ ~canvas.context
  /\ mounted /\ mounts = 2

\* The number of shooting stars engine e had spawned before the step; an
\* engine created by the step had spawned none.
PriorSpawned(e) == IF e <= Len(engines) THEN engines[e].spawned ELSE 0

(***************************************************************************)
(* C20.  A shooting star spawned in a frame ends that frame in the active  *)
(* set as it was created: not moved, not aged, not removed.  animate       *)
(* calls createShootingStar before the loop that updates and removes the   *)
(* shooting stars, so the new star is moved and aged in the frame that     *)
(* spawned it, and removed in it when that first move takes it off the     *)
(* canvas.                                                                 *)
(***************************************************************************)
C20_SpawnAfterRemoval ==
  [][\A e \in 1..Len(engines') :
       engines'[e].spawned > PriorSpawned(e) =>
         \E j \in 1..Len(engines'[e].shootingStars) :
           /\ engines'[e].shootingStars[j].id = engines'[e].spawned
           /\ engines'[e].shootingStars[j].age = 0
           /\ engines'[e].shootingStars[j].opacity = 1000]_vars

(***************************************************************************)
(* Properties of the contact form.                                         *)
(***************************************************************************)
\* A step in which the pending request fails, and one in which it succeeds.
FailureStep == mutation.status = "pending" /\ mutation'.status = "error"
SuccessStep == mutation.status = "pending" /\ mutation'.status = "success"

\* A step in which the form changes in one field only and the request state
\* does not change: an edit by the user.
EditStep ==
  /\ mutation' = mutation
  /\ Cardinality({f \in Fields : formData'[f] # formData[f]}) = 1

(***************************************************************************)
(* C18.  When the pending submission fails, exactly one notification is    *)
(* added, it is destructive and its description is the error's message,    *)
(* or "Please try again later." when the message is empty, and the four    *)
(* fields of the form keep the values they had.                            *)
(***************************************************************************)
C18_FailureKeepsInput ==
  [][FailureStep =>
       /\ formData' = formData
       /\ Len(toasts') = Len(toasts) + 1
       /\ SubSeq(toasts', 1, Len(toasts)) = toasts
       /\ toasts'[Len(toasts')].variant = "destructive"
       /\ toasts'[Len(toasts')].title = "Something went wrong"
       /\ toasts'[Len(toasts')].description =
            (IF mutation'.error = "" THEN "Please try again later."
             ELSE mutation'.error)]_vars

\* Two submissions have failed, one with a message and one without, and the
\* form still holds the input, edited while the second was pending.
C18_Witness ==
  /\ mutation.status = "error"
  /\ Len(toasts) = 2
  /\ toasts[1].description = "500: Internal server error"
  /\ toasts[2].description = "Please try again later."
  /\ Valid(formData)
  /\ formData # mutation.variables

(***************************************************************************)
(* C19.  When the pending submission succeeds, the confirmation            *)
(* notification is added and name, email, subject and message are all      *)
(* the empty string; and the form changes in no other way than by such a   *)
(* success or by the user's edit of one field: submitting, waiting and     *)
(* failing leave it as it is.                                              *)
(***************************************************************************)
C19_SuccessClearsForm ==
  [][/\ SuccessStep =>
          /\ formData' = EmptyForm
          /\ toasts' = Append(toasts, SuccessToast)
          /\ toasts'[Len(toasts')].variant = "default"
     /\ formData' # formData => SuccessStep \/ EditStep]_vars

\* The second submission of filled-in fields has succeeded: the form is
\* empty and the confirmation is the last toast.
C19_Witness ==
  /\ mutation.status = "success"
  /\ Valid(mutation.variables)
  /\ formData = EmptyForm
  /\ toasts # <<>>
  /\ toasts[Len(toasts)].title = "Message sent!"
  /\ submits = 2

(***************************************************************************)
(* A long run of one engine on a full-size canvas: a shower in which       *)
(* every frame spawns a shooting star at the top left corner with the      *)
(* least speed.  The first stars get initial lives of 88, 86, 84, 82 and   *)
(* 80 frames, all later ones the longest life Math.random() can give.      *)
(***************************************************************************)
\* Frames of the shower.
ShowerFrames == 237

ShowerWindow == [innerWidth |-> 1920, innerHeight |-> 1080]

\* The Math.random() that sets the life of the star spawned in frame n.
ShowerLives == <<53, 40, 26, 13, 0>>
ShowerStream(n) ==
  <<5, 0, 0, 0, 0, 0, IF n <= Len(ShowerLives) THEN ShowerLives[n] ELSE 999>>

InitShower ==
  /\ gwindow = ShowerWindow
  /\ canvas = [present |-> TRUE, context |-> TRUE, width |-> 300, height |-> 150]
  /\ mounted = FALSE /\ mounts = 0 /\ cleanup = 0
  /\ engines = <<>> /\ drawn = NothingDrawn /\ frames = 0
  /\ LambdaOff /\ FormOff

\* A display refresh of the shower: the frame callbacks run on the
\* scripted random numbers.
ShowerFrame ==
  /\ \E e \in 1..Len(engines) : engines[e].raf
  /\ frames < ShowerFrames
  /\ LET frame == RunCallbacks(engines, canvas, ShowerStream(frames + 1))
     IN /\ engines' = [e \in 1..Len(engines) |-> frame[e].engine]
        /\ drawn' = [e \in 1..Len(engines) |-> frame[e].drawn]
  /\ frames' = frames + 1
  /\ UNCHANGED <<gwindow, canvas, mounted, mounts, cleanup, lambdaVars, formVars>>

NextShower ==
  \/ Mount(<<999>>)
  \/ ShowerFrame

SpecShower == InitShower /\ [][NextShower]_vars

\* The least number no initial life counter reaches: Math.random() * 150 +
\* 80 with Math.random() below 1.
MaxInitialLife == (1000 * 150 + 80000) \div 1000

(***************************************************************************)
(* C21.  A frame spawns at most one shooting star, and the active set of   *)
(* an engine never holds more stars than the maximum initial life counter  *)
(* (230).  A star that follows a removed one is skipped by the loop for    *)
(* that frame (see C14) and so lives a frame longer than its counter       *)
(* says: in a shower that spawns a star every frame the set reaches 231.   *)
(***************************************************************************)
C21_ActiveSetBounded ==
  [][\A e \in 1..Len(engines') :
       /\ engines'[e].spawned <= PriorSpawned(e) + 1
       /\ Len(engines'[e].shootingStars) <= MaxInitialLife]_vars

\* A step in which animate has run: a display refresh or an effect run.
\* The engines that ran it are those with drawing calls after the step.
AnimateStep == FrameStep \/ Len(engines') > Len(engines)

(***************************************************************************)
(* C22.  At the end of every frame every shooting star in the active set   *)
(* of an engine has a positive life and lies within the canvas, whose      *)
(* size is the viewport's also after a resize that shrinks it.  The star   *)
(* that follows a removed one is passed over for that frame (see C14):     *)
(* it is not tested, and stays in the set where it was, outside a          *)
(* viewport that has shrunk since the frame before.                        *)
(***************************************************************************)
C22_ActiveSetAliveAndInside ==
  [][AnimateStep =>
       \A e \in {d \in 1..Len(engines') : drawn'[d] # <<>>} :
         \A i \in 1..Len(engines'[e].shootingStars) :
           LET star == engines'[e].shootingStars[i]
           IN /\ star.life > 0
              /\ star.x <= canvas'.width * 1000
              /\ star.y <= canvas'.height * 1000]_vars

(***************************************************************************)
(* C23.  After every frame every star and every nebula cloud of the        *)
(* engine lies within the canvas, and the numbers of stars and nebula      *)
(* clouds are those the engine was created with.  The numbers never        *)
(* change, but only dust particles are wrapped at the edges: a nebula      *)
(* cloud drifts by up to 0.3 px a frame in x and 0.2 px in y with no test  *)
(* of its position, so one created next to an edge leaves the canvas.      *)
(***************************************************************************)
C23_StarsAndNebulaeInside ==
  [][AnimateStep =>
       \A e \in {d \in 1..Len(engines') : drawn'[d] # <<>>} :
         /\ Len(engines'[e].stars) = starCount
         /\ Len(engines'[e].nebulaClouds) = nebulaCount
         /\ \A i \in 1..starCount : InBounds(engines'[e].stars[i], canvas')
         /\ \A i \in 1..nebulaCount :
              InBounds(engines'[e].nebulaClouds[i], canvas')]_vars

\* The shooting star with the given id in an active set: a sequence of
\* one star, or the empty sequence when the set does not hold it.
WithId(arr, id) == SelectSeq(arr, LAMBDA star : star.id = id)

\* What a frame leaves of a shooting star that is alone in the active set.
Alone(star, cv) == ForEachShootingStar(<<star>>, cv).shootingStars

\* The frame that engine e would run next on the stream rs.
NextFrame(e, rs) == animate(engines[e], canvas, rs, 1).engine

(***************************************************************************)
(* C24.  What a frame does to a particle depends on that particle alone:   *)
(* a star, a nebula cloud and a dust particle end the frame as their own   *)
(* update makes them, and a shooting star ends the frame as it would if    *)
(* it were the only one in the active set.  For shooting stars this        *)
(* fails: whether a star is updated in a frame depends on whether the      *)
(* star before it in the array is removed in that frame (see C14).         *)
(***************************************************************************)
C24_OwnStateOnly ==
  \A e \in 1..Len(engines) : \A rs \in Streams :
    LET now == engines[e]
        next == NextFrame(e, rs)
    IN /\ \A i \in 1..Len(now.stars) : next.stars[i] = MoveStar(now.stars[i])
       /\ \A i \in 1..Len(now.nebulaClouds) :
            next.nebulaClouds[i] = MoveNebula(now.nebulaClouds[i])
       /\ \A i \in 1..Len(now.cosmicDust) :
            \E k \in 1..Len(rs) :
              next.cosmicDust[i] = MoveDust(now.cosmicDust[i], canvas, rs[k])
       /\ \A i \in 1..Len(now.shootingStars) :
            LET star == now.shootingStars[i]
            IN WithId(next.shootingStars, star.id) = Alone(star, canvas)

\* The place of a layer in the rendering order; the dust layer has none.
LayerRank(layer) ==
  IF layer = "background" THEN 0
  ELSE IF layer = "nebula" THEN 1
  ELSE IF layer = "star" THEN 2
  ELSE 3

Layered(calls) == {c \in 1..Len(calls) : calls[c].layer # "dust"}

(***************************************************************************)
(* C25.  The drawing calls of every frame of an engine start with one      *)
(* background fill, followed by all its nebula clouds, then all its        *)
(* stars, then the shooting stars it draws: no nebula cloud is drawn       *)
(* after a star and no star after a shooting star.                         *)
(***************************************************************************)
C25_RenderingOrder ==
  \A e \in 1..Len(engines) :
    LET calls == drawn[e]
    IN calls # <<>> =>
         /\ calls[1].layer = "background"
         /\ \A c \in 2..Len(calls) : calls[c].layer # "background"
         /\ \A c, d \in Layered(calls) :
              c < d => LayerRank(calls[c].layer) <= LayerRank(calls[d].layer)
         /\ Cardinality({c \in 1..Len(calls) : calls[c].layer = "nebula"})
              = Len(engines[e].nebulaClouds)
         /\ Cardinality({c \in 1..Len(calls) : calls[c].layer = "star"})
              = Len(engines[e].stars)

\* A frame has drawn nebula clouds, stars and two shooting stars.
C25_Witness ==
  /\ frames >= 1
  /\ \E e \in 1..Len(engines) :
       /\ \E c \in 1..Len(drawn[e]) : drawn[e][c].layer = "nebula"
       /\ \E c \in 1..Len(drawn[e]) : drawn[e][c].layer = "star"
       /\ Cardinality({c \in 1..Len(drawn[e]) : drawn[e][c].layer = "shootingStar"}) = 2

\* The engines whose frame callback is pending.
Pending == {e \in 1..Len(engines) : engines[e].raf}

(***************************************************************************)
(* C26.  On one canvas at most one frame callback is pending at any time,  *)
(* whatever mounts, frames, resizes and teardowns have happened.  Each     *)
(* call of animate registers its callback as its last statement and runs   *)
(* to completion, but the cleanup does not cancel the callback (see C16):  *)
(* after a teardown and a second effect run on the same canvas two         *)
(* callbacks are pending, and every display refresh runs both.             *)
(***************************************************************************)
C26_OnePendingCallback == Cardinality(Pending) <= 1

(***************************************************************************)
(* C27.  The store changes only when the write of a POST /api/contact      *)
(* invocation settles.  An invocation with any other request (OPTIONS on   *)
(* any path, GET /health, a request answered with 404) returns at once     *)
(* without sending a write, and the step that runs it leaves the store     *)
(* as it was.                                                              *)
(***************************************************************************)
C27_OnlyContactPostWrites ==
  [][/\ store' # store =>
          \E i \in Invocations :
            /\ inv[i].pc = "awaiting" /\ inv'[i].pc = "done"
            /\ IsContactPost(inv[i].event)
     /\ \A i \in Invocations :
          (inv'[i].pc # "idle" /\ ~IsContactPost(inv'[i].event)) =>
            /\ inv'[i].pc = "done"
            /\ inv'[i].writes = 0
            /\ "send" \notin inv'[i].steps
            /\ inv[i].pc = "idle" => store' = store]_vars

\* With a record in the store, an OPTIONS request on /api/contact that
\* carries a full contact body has been answered, and the store holds that
\* one record still.
C27_Witness ==
  \E i, j \in Invocations :
    /\ Done(i) /\ inv[i].event.httpMethod = "OPTIONS"
    /\ inv[i].event.path = "/api/contact"
    /\ inv[i].event.body = Text(FullBody)
    /\ Status(i) = 200
    /\ Persisted(j) /\ j \in inv[i].after
    /\ AllItems = {inv[j].submission}

(***************************************************************************)
(* C28.  When the pending submission succeeds after the user has edited    *)
(* fields while it was pending, the four fields are all empty after the    *)
(* success callback: the reset writes the whole form and the edits made    *)
(* in between are gone.                                                    *)
(***************************************************************************)
C28_SuccessResetsEditedForm ==
  [][(SuccessStep /\ edited) => \A f \in Fields : formData'[f] = ""]_vars

\* A submission has succeeded whose form was edited while it was pending,
\* and the form is empty.
C28_Witness ==
  /\ mutation.status = "success"
  /\ edited
  /\ \A f \in Fields : formData[f] = ""
  /\ toasts[Len(toasts)] = SuccessToast

\* The submissions issued whose request has neither resolved nor rejected:
\* every outcome shows one notification.
InFlight == submits - Len(toasts)

(***************************************************************************)
(* C29.  At most one contact request of the form is in flight at any       *)
(* time, and a request is in flight exactly while the mutation is          *)
(* pending, which is when the submit button is disabled: from the moment   *)
(* a submission is issued until it resolves or rejects no other one is     *)
(* issued, and after either outcome the button is enabled again.           *)
(***************************************************************************)
C29_OneRequestInFlight ==
  /\ InFlight \in {0, 1}
  /\ InFlight = 1 <=> mutation.status = "pending"
  /\ InFlight = 0 <=> mutation.status \in {"idle", "success", "error"}

\* A second submission is in flight after the first one was rejected, with
\* the form still holding the values that were sent.
C29_Witness ==
  /\ submits = 2
  /\ InFlight = 1
  /\ toasts[1] # SuccessToast
  /\ mutation.status = "pending"
  /\ formData = mutation.variables

(***************************************************************************)
(* C30.  Every shooting star that a frame draws is drawn with an opacity   *)
(* greater than 0 and at most 1 (1000 thousandths): the opacity computed   *)
(* from the remaining life does not exceed 1 for any initial life the      *)
(* spawn produces.                                                         *)
(***************************************************************************)
C30_ShootingStarOpacityInRange ==
  \A d \in 1..Len(drawn) : \A i \in 1..Len(drawn[d]) :
    drawn[d][i].layer = "shootingStar" =>
      (drawn[d][i].alpha > 0 /\ drawn[d][i].alpha <= 1000)

====
